---- MODULE Spec2Model ----
(***************************************************************************)
(* A model of sales_value_matrix.py: the data classification pipeline      *)
(* (map_engagement_level, process_uploaded_data, process_data) and the     *)
(* Dash callbacks that hold its result (handle_upload,                     *)
(* update_visualization).                                                  *)
(*                                                                         *)
(* Text is modelled by TLA+ strings, read character by character with      *)
(* Len, SubSeq and \o, so that strip(), lower(), replace(), title() and    *)
(* the substring test `kw in s` are computed as Python computes them.      *)
(* A cell of a DataFrame is a pair <<type, value>>: pandas keeps text,     *)
(* integers, whole floats, booleans and NaN (a blank) apart, and           *)
(* astype(str) / str() renders each differently.                           *)
(***************************************************************************)
EXTENDS Integers, Sequences, FiniteSets, TLC

----------------------------------------------------------------------------
(* Python text primitives *)

At(s, i) == SubSeq(s, i, i)

\* `kw in s` on two str values
Contains(s, kw) ==
    \E i \in 1..(Len(s) - Len(kw) + 1) : SubSeq(s, i, i + Len(kw) - 1) = kw

UpperChars == "ABCDEFGHIJKLMNOPQRSTUVWXYZ"
LowerChars == "abcdefghijklmnopqrstuvwxyz"

IsUpper(c) == \E i \in 1..Len(UpperChars) : At(UpperChars, i) = c
IsLower(c) == \E i \in 1..Len(LowerChars) : At(LowerChars, i) = c
IsAlpha(c) == IsUpper(c) \/ IsLower(c)
IsSpace(c) == c \in {" ", "\t"}

LowerChar(c) ==
    IF IsUpper(c)
    THEN At(LowerChars, CHOOSE i \in 1..Len(UpperChars) : At(UpperChars, i) = c)
    ELSE c

UpperChar(c) ==
    IF IsLower(c)
    THEN At(UpperChars, CHOOSE i \in 1..Len(LowerChars) : At(LowerChars, i) = c)
    ELSE c

\* str.lower()
RECURSIVE Lower(_)
Lower(s) == IF Len(s) = 0 THEN "" ELSE LowerChar(At(s, 1)) \o Lower(SubSeq(s, 2, Len(s)))

\* str.strip(): leading and trailing whitespace removed
Strip(s) ==
    LET keep == {i \in 1..Len(s) : ~IsSpace(At(s, i))}
    IN  IF keep = {} THEN ""
        ELSE LET lo == CHOOSE i \in keep : \A j \in keep : i <= j
                 hi == CHOOSE i \in keep : \A j \in keep : j <= i
             IN  SubSeq(s, lo, hi)

\* str.replace(a, b) for single characters a and b
RECURSIVE ReplaceChar(_, _, _)
ReplaceChar(s, a, b) ==
    IF Len(s) = 0 THEN ""
    ELSE (IF At(s, 1) = a THEN b ELSE At(s, 1)) \o ReplaceChar(SubSeq(s, 2, Len(s)), a, b)

\* str.title(): a letter that follows a non-letter is upper-cased, every other
\* letter lower-cased
RECURSIVE TitleFrom(_, _)
TitleFrom(s, afterLetter) ==
    IF Len(s) = 0 THEN ""
    ELSE LET c == At(s, 1)
         IN  (IF afterLetter THEN LowerChar(c) ELSE UpperChar(c))
                \o TitleFrom(SubSeq(s, 2, Len(s)), IsAlpha(c))

Title(s) == TitleFrom(s, FALSE)

Digits == "0123456789"

\* str(n) for an int n >= 0
RECURSIVE IntStr(_)
IntStr(n) ==
    IF n < 10 THEN At(Digits, n + 1)
    ELSE IntStr(n \div 10) \o At(Digits, (n % 10) + 1)

----------------------------------------------------------------------------
(* DataFrame cells *)

StrCell(s)   == <<"str", s>>
IntCell(n)   == <<"int", n>>
FloatCell(n) == <<"float", n>>      \* the float n.0
BoolCell(b)  == <<"bool", b>>
NaN          == <<"nan", 0>>

\* str(x) / Series.astype(str) of one cell
AsStr(cell) ==
    CASE cell[1] = "str"   -> cell[2]
      [] cell[1] = "int"   -> IntStr(cell[2])
      [] cell[1] = "float" -> IntStr(cell[2]) \o ".0"
      [] cell[1] = "bool"  -> (IF cell[2] THEN "True" ELSE "False")
      [] cell[1] = "nan"   -> "nan"

\* the function f written out as the table of its values
Table(f) == f @@ <<>>

Range(f) == {f[i] : i \in DOMAIN f}

----------------------------------------------------------------------------
(* map_engagement_level *)

\* the tests of map_engagement_level with 'free' tried before 'untouch'
map_engagement_level_free_first(stage) ==
    LET s == Lower(Strip(AsStr(stage)))
    IN  IF Contains(s, "free") THEN 1
        ELSE IF Contains(s, "untouch") THEN 0
        ELSE IF Contains(s, "direct") \/ Contains(s, "da-d") THEN 2
        ELSE IF Contains(s, "lite") THEN 3
        ELSE IF Contains(s, "full") THEN 4
        ELSE 0

map_engagement_level(stage) ==
    LET s == Lower(Strip(AsStr(stage)))
    IN  IF Contains(s, "untouch") THEN 0
        ELSE IF Contains(s, "free") THEN 1
        ELSE IF Contains(s, "direct") \/ Contains(s, "da-d") THEN 2
        ELSE IF Contains(s, "lite") THEN 3
        ELSE IF Contains(s, "full") THEN 4
        ELSE 0

----------------------------------------------------------------------------
(* DataFrames: an ordered column list and rows, each a function from the   *)
(* column names to cells.                                                  *)

\* df[col] = vals: an existing column keeps its place, a new one is appended
SetColumn(df, col, vals) ==
    [columns |-> IF col \in Range(df.columns) THEN df.columns
                 ELSE Append(df.columns, col),
     rows    |-> Table([i \in DOMAIN df.rows |->
                    Table([c \in (DOMAIN df.rows[i]) \cup {col} |->
                        IF c = col THEN vals[i] ELSE df.rows[i][c]])])]

Min(S) == CHOOSE x \in S : \A y \in S : x <= y

----------------------------------------------------------------------------
(* process_data *)

YesWords == {"yes", "y", "1", "true"}

\* the normalisation of one cell without the strip()
NormalizeBoolNoStrip(cell) ==
    IF Lower(AsStr(cell)) \in YesWords THEN StrCell("Yes") ELSE StrCell("No")

\* lines 86-87 on one cell
NormalizeBool(cell) ==
    IF Lower(Strip(AsStr(cell))) \in YesWords THEN StrCell("Yes") ELSE StrCell("No")

\* the loop of lines 85-87
NormalizeStep(df, value_columns) ==
    [columns |-> df.columns,
     rows    |-> Table([i \in DOMAIN df.rows |->
                    Table([c \in DOMAIN df.rows[i] |->
                        IF c \in Range(value_columns)
                        THEN NormalizeBool(df.rows[i][c])
                        ELSE df.rows[i][c]])])]

\* x.map({'Yes':1, 'No':0}) of one cell; a NaN of the map adds nothing to sum()
YesNoMap(cell) ==
    IF cell = StrCell("Yes") THEN 1 ELSE 0

\* the sum taken over every column of the row instead of df[value_columns]
ValueScoreAllColumns(row, value_columns) ==
    Cardinality({c \in DOMAIN row : row[c] = StrCell("Yes")})

\* df[value_columns].apply(...).sum(axis=1) for one row
RECURSIVE ValueScore(_, _)
ValueScore(row, value_columns) ==
    IF value_columns = <<>> THEN 0
    ELSE YesNoMap(row[Head(value_columns)]) + ValueScore(row, Tail(value_columns))

\* len(value_columns) without the `or 1`
MaxScoreNoGuard(value_columns) == Len(value_columns)

\* len(value_columns) or 1
MaxScore(value_columns) ==
    IF Len(value_columns) = 0 THEN 1 ELSE Len(value_columns)

IsStageName(col) == Contains(col, "stage") \/ Contains(col, "subscription")

\* the index of the last column of a stage name, 0 for None
StageIndexLast(columns) ==
    LET hits == {i \in DOMAIN columns : IsStageName(columns[i])}
    IN  IF hits = {} THEN 0 ELSE CHOOSE i \in hits : \A j \in hits : j <= i

\* next((col for col in df.columns if ...), None): the index of the column, 0 for None
StageIndex(columns) ==
    LET hits == {i \in DOMAIN columns : IsStageName(columns[i])}
    IN  IF hits = {} THEN 0 ELSE Min(hits)

EngagementLevel(df, i) ==
    LET k == StageIndex(df.columns)
    IN  IF k # 0 THEN map_engagement_level(df.rows[i][df.columns[k]]) ELSE 0

\* value_score >= max_score * 0.65, in hundredths (both sides exact: no product
\* max_score * 0.65 of the model's sizes rounds onto an integer)
ValueThresholdPct == 65
EngagementThreshold == 2

AtLeastValueThreshold(value_score, max_score) ==
    value_score * 100 >= max_score * ValueThresholdPct

\* the four conditions with the engagement tests `>` and `<`
QuadrantStrictEngagement(value_score, engagement_level, max_score) ==
    LET hiV == AtLeastValueThreshold(value_score, max_score)
    IN  IF hiV /\ engagement_level > EngagementThreshold THEN "Strategic Partners"
        ELSE IF ~hiV /\ engagement_level > EngagementThreshold THEN "Growth Opportunities"
        ELSE IF hiV /\ engagement_level < EngagementThreshold THEN "High Value Prospects"
        ELSE IF ~hiV /\ engagement_level < EngagementThreshold THEN "Basic Users"
        ELSE "Unclassified"

\* np.select(conditions, quadrants, default='Unclassified'): the first true condition
Quadrant(value_score, engagement_level, max_score) ==
    LET hiV == AtLeastValueThreshold(value_score, max_score)
        hiE == engagement_level >= EngagementThreshold
    IN  IF hiV /\ hiE THEN "Strategic Partners"
        ELSE IF ~hiV /\ hiE THEN "Growth Opportunities"
        ELSE IF hiV /\ ~hiE THEN "High Value Prospects"
        ELSE IF ~hiV /\ ~hiE THEN "Basic Users"
        ELSE "Unclassified"

SizeFactor == 12
SizeBase == 25
SizeMin == 20
SizeMax == 60

\* value_score * 12 + 25 without the clip
SizeUnclipped(value_score) == value_score * SizeFactor + SizeBase

\* np.clip(value_score * 12 + 25, 20, 60)
Size(value_score) ==
    LET raw == value_score * SizeFactor + SizeBase
    IN  IF raw < SizeMin THEN SizeMin ELSE IF raw > SizeMax THEN SizeMax ELSE raw

\* lines 90-119 on the normalised frame: each derived column is written into the
\* frame, and the later lines read it back from there
ClassifyStep(df, value_columns) ==
    LET n  == DOMAIN df.rows
        ms == MaxScore(value_columns)
        d1 == SetColumn(df, "value_score",
                Table([i \in n |-> IntCell(ValueScore(df.rows[i], value_columns))]))
        d2 == SetColumn(d1, "engagement_level",
                Table([i \in n |-> IntCell(EngagementLevel(d1, i))]))
        d3 == SetColumn(d2, "quadrant",
                Table([i \in n |-> StrCell(Quadrant(d2.rows[i]["value_score"][2],
                                              d2.rows[i]["engagement_level"][2], ms))]))
        d4 == SetColumn(d3, "size",
                Table([i \in n |-> IntCell(Size(d3.rows[i]["value_score"][2]))]))
    IN  [df |-> d4, max_score |-> ms]

process_data(df, value_columns) ==
    ClassifyStep(NormalizeStep(df, value_columns), value_columns)

----------------------------------------------------------------------------
(* Python values that one name can hold in turn *)

PyNone       == <<"None">>
PyStr(s)     == <<"str", s>>
PyList(l)    == <<"list", l>>
PyFrame(d)   == <<"DataFrame", d>>

\* repr() of a list of str, as an f-string renders it
RECURSIVE ReprItems(_)
ReprItems(l) ==
    IF Len(l) = 0 THEN ""
    ELSE "'" \o Head(l) \o "'" \o (IF Len(l) > 1 THEN ", " ELSE "") \o ReprItems(Tail(l))

\* f"{x}" of a str or a list of str
Format(x) == IF x[1] = "str" THEN x[2] ELSE "[" \o ReprItems(x[2]) \o "]"

----------------------------------------------------------------------------
(* process_uploaded_data *)

\* The upload control's `contents`: None, or a data URL.  What base64 decoding and
\* the pandas reader make of a data URL is part of the value: they raise (with a
\* message) or give a frame keyed by the file's own column labels.
Raises(msg)    == <<"contents", <<"raises", msg>>>>
ParsesTo(d)    == <<"contents", <<"frame", d>>>>
\* a data URL of delimited text, given by the fields of its header line and of
\* its data lines
CsvOf(t)       == <<"contents", <<"csv", t>>>>
IsFalsy(contents) == contents \in {PyNone, PyStr("")}

IsDigits(s) == Len(s) > 0 /\ \A i \in 1..Len(s) : Contains(Digits, At(s, i))

DigitValue(c) == (CHOOSE i \in 1..Len(Digits) : At(Digits, i) = c) - 1

RECURSIVE StrToInt(_)
StrToInt(s) ==
    IF Len(s) = 0 THEN 0
    ELSE StrToInt(SubSeq(s, 1, Len(s) - 1)) * 10 + DigitValue(At(s, Len(s)))

\* The guesser's result (chardet.detect): an encoding name, or None when it has
\* no guess, and a confidence, kept in hundredths.
Guess(name, pct) == [encoding |-> name, confidence |-> pct]

EncodingThresholdPct == 70

\* detect_encoding with the guess kept from the threshold on
detect_encoding_from_threshold(result) ==
    IF result.confidence >= EncodingThresholdPct THEN result.encoding ELSE PyStr("utf-8")

\* lines 29-30, `result` what chardet.detect(decoded_content) gave
detect_encoding(result) ==
    IF result.confidence > EncodingThresholdPct THEN result.encoding ELSE PyStr("utf-8")

BoolWords == {"True", "TRUE", "true", "False", "FALSE", "false"}

\* pd.read_csv on delimited text (line 60): an empty field is NaN, and each column
\* gets the narrowest type its other fields allow: int64 when all are digits and
\* none is empty, float64 when all are digits and some are empty (and when all
\* are empty), booleans when all are True/False words, text otherwise
read_csv(t) ==
    LET n == DOMAIN t.rows
        filled(k) == {i \in n : t.rows[i][k] # ""}
        digits(k) == filled(k) # {} /\ \A i \in filled(k) : IsDigits(t.rows[i][k])
        bools(k)  == filled(k) # {} /\ \A i \in filled(k) : t.rows[i][k] \in BoolWords
        cell(i, k) ==
            LET f == t.rows[i][k]
            IN  IF f = "" THEN NaN
                ELSE IF digits(k)
                     THEN (IF filled(k) = n THEN IntCell(StrToInt(f))
                           ELSE FloatCell(StrToInt(f)))
                ELSE IF bools(k) THEN BoolCell(Lower(f) = "true")
                ELSE StrCell(f)
    IN  [columns |-> t.columns,
         rows    |-> Table([i \in n |->
                        Table([c \in Range(t.columns) |->
                            cell(i, Min({k \in DOMAIN t.columns : t.columns[k] = c}))])])]

\* df.empty
IsEmptyFrame(d) == Len(d.columns) = 0 \/ Len(d.rows) = 0

\* col.strip().lower().replace(' ', '_')
CleanName(col) == ReplaceChar(Lower(Strip(col)), " ", "_")

\* clean_column_names(df.copy()); the labels of a frame clean to distinct names
clean_column_names(d) ==
    LET names == Table([k \in DOMAIN d.columns |-> CleanName(d.columns[k])])
    IN  [columns |-> names,
         rows    |-> Table([i \in DOMAIN d.rows |->
                        Table([c \in Range(names) |->
                            d.rows[i][d.columns[CHOOSE k \in DOMAIN names : names[k] = c]]])])]

BooleanVocabulary == {"yes", "no", "y", "n", "1", "0", "true", "false"}

\* lines 71-72 for one column
IsBooleanLike(d, col) ==
    LET unique_vals == {Lower(Strip(AsStr(d.rows[i][col]))) :
                            i \in {j \in DOMAIN d.rows : d.rows[j][col] # NaN}}
    IN  \A val \in unique_vals : val \in BooleanVocabulary

\* lines 68-75: the boolean-like columns, in column order
RECURSIVE InferValueColumns(_, _)
InferValueColumns(d, k) ==
    IF k > Len(d.columns) THEN <<>>
    ELSE (IF IsBooleanLike(d, d.columns[k]) THEN <<d.columns[k]>> ELSE <<>>)
            \o InferValueColumns(d, k + 1)

\* the tuple process_uploaded_data returns
process_uploaded_data(contents, filename) ==
    IF IsFalsy(contents) THEN <<PyNone, PyStr("No file uploaded")>>
    ELSE LET parsed == contents[2]
         IN  IF parsed[1] = "raises"
             THEN <<PyNone, PyStr("Error processing file: " \o parsed[2]), PyList(<<>>)>>
             ELSE LET parsed_df == IF parsed[1] = "csv" THEN read_csv(parsed[2])
                                   ELSE parsed[2]
                      df_clean  == clean_column_names(parsed_df)
                  IN  <<PyFrame(df_clean),
                        PyList(InferValueColumns(df_clean, 1)),
                        PyList(parsed_df.columns)>>

----------------------------------------------------------------------------
(* The processed-data store: DataFrame.to_json(orient='split') and back *)

JsonNull == <<"null", 0>>

\* text, numbers (1 and 1.0 stay apart) and booleans are written as they are,
\* NaN as null
to_json(d) ==
    <<"json",
      [columns |-> d.columns,
       rows    |-> Table([i \in DOMAIN d.rows |->
                      Table([c \in DOMAIN d.rows[i] |->
                          IF d.rows[i][c] = NaN THEN JsonNull ELSE d.rows[i][c]])])]>>

IsNumberLike(v) == v[1] \in {"int", "float"} \/ (v[1] = "str" /\ IsDigits(v[2]))
NumberOf(v) == IF v[1] = "str" THEN StrToInt(v[2]) ELSE v[2]

\* pd.read_json(orient='split'): null is NaN; a column of numbers, or of text that
\* reads as numbers, becomes int64 when it has no null and float64 when it has
read_json(j) ==
    LET d == j[2]
        numeric(c) ==
            /\ \E i \in DOMAIN d.rows : d.rows[i][c] # JsonNull
            /\ \A i \in DOMAIN d.rows : d.rows[i][c] = JsonNull \/ IsNumberLike(d.rows[i][c])
        holed(c) == \E i \in DOMAIN d.rows : d.rows[i][c] = JsonNull
        back(c, v) ==
            IF v = JsonNull THEN NaN
            ELSE IF numeric(c)
                 THEN (IF holed(c) THEN FloatCell(NumberOf(v)) ELSE IntCell(NumberOf(v)))
                 ELSE v
    IN  [columns |-> d.columns,
         rows    |-> Table([i \in DOMAIN d.rows |->
                        Table([c \in DOMAIN d.rows[i] |-> back(c, d.rows[i][c])])])]

----------------------------------------------------------------------------
(* handle_upload *)

\* next((col for col in columns if <test>), dflt), `passing` the names that pass
\* the test
FirstColumn(columns, passing, dflt) ==
    LET hits == {k \in DOMAIN columns : columns[k] \in passing}
    IN  IF hits = {} THEN dflt ELSE PyStr(columns[Min(hits)])

IsGroupName(col)  == Contains(col, "group")
IsAgencyName(col) == Contains(col, "agency") /\ Contains(col, "name")

GroupColumn(columns, dflt) ==
    FirstColumn(columns, {c \in Range(columns) : IsGroupName(c)}, dflt)
AgencyColumn(columns, dflt) ==
    FirstColumn(columns, {c \in Range(columns) : IsAgencyName(c)}, dflt)

\* Series.unique(): the values in order of first appearance
RECURSIVE Unique(_)
Unique(vals) ==
    IF Len(vals) = 0 THEN <<>>
    ELSE LET init == Unique(SubSeq(vals, 1, Len(vals) - 1))
             last == vals[Len(vals)]
         IN  IF last \in Range(init) THEN init ELSE Append(init, last)

Column(d, col) == Table([i \in DOMAIN d.rows |-> d.rows[i][col]])

\* the option values of a filter dropdown (label and value are the same cell)
Options(d, col) == IF col = PyNone THEN <<>> ELSE Unique(Column(d, col[2]))

Alert(color, text) == <<"Alert", color, text>>

UploadCard == <<"upload-card">>
VisualizationLayout(file, group_options, agency_options) ==
    <<"visualization",
      [filename |-> file, group_options |-> group_options,
       agency_options |-> agency_options]>>

NoUpdate == <<"no_update">>

\* the seven outputs of handle_upload, in the order of lines 187-193
Outputs(status, content, data, columns, score, file, original) ==
    [upload_status |-> status, main_content |-> content, processed_data |-> data,
     value_columns |-> columns, max_value_score |-> score, filename_store |-> file,
     original_columns |-> original]

\* handle_upload with an error branch that also writes the file name to its store
handle_upload_error_names_file(upload_contents, upload_filename) ==
    IF IsFalsy(upload_contents)
    THEN Outputs(NoUpdate, NoUpdate, NoUpdate, NoUpdate, NoUpdate, NoUpdate, NoUpdate)
    ELSE LET r == process_uploaded_data(upload_contents, upload_filename)
         IN  IF r[1] = PyNone \/ IsEmptyFrame(r[1][2])
             THEN Outputs(Alert("danger", "Error: " \o Format(r[2])),
                          NoUpdate, NoUpdate, NoUpdate, NoUpdate,
                          PyStr(upload_filename), NoUpdate)
             ELSE LET p == process_data(r[1][2], r[2][2])
                      group_col  == GroupColumn(p.df.columns, PyNone)
                      agency_col == AgencyColumn(p.df.columns, PyNone)
                  IN  Outputs(Alert("success",
                                    "Successfully processed: " \o upload_filename \o " ("
                                       \o IntStr(Len(p.df.rows)) \o " agencies)"),
                              VisualizationLayout(upload_filename,
                                                  Options(p.df, group_col),
                                                  Options(p.df, agency_col)),
                              to_json(p.df), r[2], IntCell(p.max_score),
                              PyStr(upload_filename), r[3])

\* What handle_upload returns for one upload: no_update for the seven outputs, an
\* error alert with the other six left alone, or the seven outputs of a processed
\* file.  (The emoji that opens the success text is left out.)
\* (process_uploaded_data returns two values only when `contents` is falsy, which
\* line 198 has already turned away, so the unpacking of line 201 gets three.)
handle_upload(upload_contents, upload_filename) ==
    IF IsFalsy(upload_contents)
    THEN Outputs(NoUpdate, NoUpdate, NoUpdate, NoUpdate, NoUpdate, NoUpdate, NoUpdate)
    ELSE LET r == process_uploaded_data(upload_contents, upload_filename)
         IN  IF r[1] = PyNone \/ IsEmptyFrame(r[1][2])
             THEN Outputs(Alert("danger", "Error: " \o Format(r[2])),
                          NoUpdate, NoUpdate, NoUpdate, NoUpdate, NoUpdate, NoUpdate)
             ELSE LET p == process_data(r[1][2], r[2][2])
                      group_col  == GroupColumn(p.df.columns, PyNone)
                      agency_col == AgencyColumn(p.df.columns, PyNone)
                  IN  Outputs(Alert("success",
                                    "Successfully processed: " \o upload_filename \o " ("
                                       \o IntStr(Len(p.df.rows)) \o " agencies)"),
                              VisualizationLayout(upload_filename,
                                                  Options(p.df, group_col),
                                                  Options(p.df, agency_col)),
                              to_json(p.df), r[2], IntCell(p.max_score),
                              PyStr(upload_filename), r[3])

----------------------------------------------------------------------------
(* update_visualization *)

EmptyFigure == <<"Figure", [kind |-> "empty"]>>

\* bool(x) of the values the callback tests
Truthy(x) ==
    CASE x = PyNone      -> FALSE
      [] x[1] = "list"   -> Len(x[2]) > 0
      [] x[1] = "str"    -> Len(x[2]) > 0
      [] x[1] = "int"    -> x[2] # 0
      [] OTHER           -> TRUE

Returns(fig, open, details) ==
    [kind |-> "return", figure |-> fig, details_open |-> open, agency_details |-> details]
RaisesError(name) == [kind |-> "raise", error |-> name]

\* df[df[col].isin(values)]
FilterIsIn(d, col, values) ==
    [columns |-> d.columns,
     rows    |-> SelectSeq(d.rows, LAMBDA r : r[col] \in Range(values))]

\* df[df[col] == value]
FilterEq(d, col, value) ==
    [columns |-> d.columns,
     rows    |-> SelectSeq(d.rows, LAMBDA r : r[col] = value)]

IndexOf(seq, x) == Min({k \in DOMAIN seq : seq[k] = x})

\* lines 384-388: display_names, a label for each column of the filtered frame
DisplayNames(columns, original) ==
    Table([col \in Range(columns) |->
        IF Truthy(original) /\ Len(original[2]) = Len(columns)
        THEN original[2][IndexOf(columns, col)]
        ELSE Title(ReplaceChar(col, "_", " "))])

\* display_names.get(col, dflt)
Get(display_names, col, dflt) ==
    IF col \in DOMAIN display_names THEN display_names[col] ELSE dflt

\* df.sort_values(by='value_score', ascending=False), rows of equal score in
\* their order: the row that comes k-th
RECURSIVE SortByScoreDesc(_)
SortByScoreDesc(rows) ==
    IF Len(rows) = 0 THEN <<>>
    ELSE LET top  == CHOOSE k \in DOMAIN rows :
                        \A j \in DOMAIN rows :
                            \/ rows[j]["value_score"][2] < rows[k]["value_score"][2]
                            \/ (rows[j]["value_score"][2] = rows[k]["value_score"][2] /\ k <= j)
             rest == Table([j \in 1..(Len(rows) - 1) |-> IF j < top THEN rows[j] ELSE rows[j + 1]])
         IN  <<rows[top]>> \o SortByScoreDesc(rest)

\* lines 400-556: the scatter figure, or the exception the view raises
QuadrantView(d, agency_col, group_col, max_score_in, show_quadrants) ==
    IF show_quadrants = PyNone \/ max_score_in = PyNone THEN RaisesError("TypeError")
    ELSE LET zones  == /\ "show" \in Range(show_quadrants[2])
                       /\ Truthy(max_score_in) /\ max_score_in[2] > 0
             groups == IF group_col \in Range(d.columns)
                       THEN Unique(Column(d, group_col)) ELSE <<>>
             trace(g) ==
                 LET gd == FilterEq(d, group_col, g)
                 IN  [name |-> g,
                      text |-> Column(gd, agency_col),
                      x    |-> Column(gd, "value_score"),
                      y    |-> Column(gd, "engagement_level"),
                      size |-> Column(gd, "size")]
         IN  IF Len(d.rows) > 0 /\ agency_col \notin Range(d.columns)
             THEN RaisesError("KeyError")
             ELSE IF Len(d.rows) > 0 /\ group_col \notin Range(d.columns)
             \* marker=dict(..., colors=...) is no property of a scatter marker
             THEN RaisesError("ValueError")
             ELSE [kind |-> "figure",
                   figure |-> <<"Figure",
                       [kind |-> "quadrant", zones |-> zones,
                        traces |-> Table([k \in DOMAIN groups |-> trace(groups[k])]),
                        showlegend |-> Len(groups) > 1]>>]

\* the heatmap over the columns that are boolean-like in the filtered frame, the
\* stored list `vcols` left aside
HeatmapViewInferred(d, agency_col, vcols, display_names) ==
    IF agency_col \notin Range(d.columns) THEN RaisesError("KeyError")
    ELSE LET heat == [columns |-> d.columns, rows |-> SortByScoreDesc(d.rows)]
             agencies == Column(heat, agency_col)
             inferred == InferValueColumns(d, 1)
         IN  [kind |-> "figure",
              figure |-> <<"Figure",
                  [kind |-> "heatmap",
                   x |-> agencies,
                   y |-> Table([k \in DOMAIN inferred |->
                            Get(display_names, inferred[k], inferred[k])]),
                   z |-> Table([k \in DOMAIN inferred |->
                            Table([i \in DOMAIN heat.rows |->
                                IF heat.rows[i][inferred[k]] = StrCell("Yes") THEN 1 ELSE 0])]),
                   marks |-> Table([i \in DOMAIN agencies |->
                                Table([k \in DOMAIN inferred |->
                                    FilterEq(heat, agency_col, agencies[i]).rows[1][inferred[k]]
                                        = StrCell("Yes")])])]>>]

\* lines 559-609, for a frame with rows
HeatmapView(d, agency_col, vcols, display_names) ==
    IF agency_col \notin Range(d.columns) THEN RaisesError("KeyError")
    ELSE LET heat == [columns |-> d.columns, rows |-> SortByScoreDesc(d.rows)]
             agencies == Column(heat, agency_col)
         IN  [kind |-> "figure",
              figure |-> <<"Figure",
                  [kind |-> "heatmap",
                   x |-> agencies,
                   y |-> Table([k \in DOMAIN vcols |-> Get(display_names, vcols[k], vcols[k])]),
                   z |-> Table([k \in DOMAIN vcols |->
                            Table([i \in DOMAIN heat.rows |->
                                IF heat.rows[i][vcols[k]] = StrCell("Yes") THEN 1 ELSE 0])]),
                   marks |-> Table([i \in DOMAIN agencies |->
                                Table([k \in DOMAIN vcols |->
                                    FilterEq(heat, agency_col, agencies[i]).rows[1][vcols[k]]
                                        = StrCell("Yes")])])]>>]

\* lines 612-708: (details_open, agency_details)
DetailsPanel(d, agency_col, group_col, vcols, max_score_in, view, click, display_names) ==
    LET failed == <<TRUE, Alert("danger", "Could not load agency details")>>
    IN  IF ~Truthy(click) THEN <<FALSE, NoUpdate>>
        ELSE LET point == click[2]
                 key   == IF view = PyStr("heatmap") THEN "x" ELSE "text"
             IN  IF key \notin DOMAIN point \/ agency_col \notin Range(d.columns)
                 THEN failed
                 ELSE LET found == FilterEq(d, agency_col, point[key]).rows
                      IN  IF Len(found) = 0 THEN failed
                          ELSE LET agency_data == found[1]
                               IN  <<TRUE,
                                     <<"Container",
                                       [agency_label |-> Get(display_names, agency_col, "Agency Name"),
                                        agency_name  |-> point[key],
                                        group_label  |-> Get(display_names, group_col, "Physician Group"),
                                        value_score  |-> <<agency_data["value_score"], max_score_in>>,
                                        stage_label  |-> Get(display_names, "sales_stage_(subscription)", "Sales Stage"),
                                        quadrant     |-> agency_data["quadrant"],
                                        type_label   |-> Get(display_names, "agency_type", "Agency Type"),
                                        badges |-> Table([k \in DOMAIN vcols |->
                                            [label   |-> Get(display_names, vcols[k], vcols[k]),
                                             adopted |-> agency_data[vcols[k]] = StrCell("Yes")]])]>>>>

update_visualization(trigger_id, data_json, vcols_in, max_score_in, selected_groups, selected_agencies, view, show_quadrants, click, original) ==
    IF trigger_id = "reset-view" THEN Returns(EmptyFigure, FALSE, NoUpdate)
    ELSE IF ~Truthy(data_json) \/ ~Truthy(vcols_in) THEN Returns(EmptyFigure, FALSE, NoUpdate)
    ELSE LET full == read_json(data_json)
             vcols == vcols_in[2]
             agency_col == AgencyColumn(full.columns, PyStr("agency_name"))[2]
             group_col  == GroupColumn(full.columns, PyStr("physician_group"))[2]
             by_group == IF Truthy(selected_groups) /\ group_col \in Range(full.columns)
                         THEN FilterIsIn(full, group_col, selected_groups[2]) ELSE full
             d == IF Truthy(selected_agencies) /\ agency_col \in Range(by_group.columns)
                  THEN FilterIsIn(by_group, agency_col, selected_agencies[2]) ELSE by_group
             display_names == DisplayNames(d.columns, original)
             fig == IF view = PyStr("quadrant")
                    THEN QuadrantView(d, agency_col, group_col, max_score_in, show_quadrants)
                    ELSE IF view = PyStr("heatmap") /\ Len(d.rows) > 0
                    THEN HeatmapView(d, agency_col, vcols, display_names)
                    \* no branch has assigned fig: line 710 reads an unbound local
                    ELSE RaisesError("UnboundLocalError")
             details == DetailsPanel(d, agency_col, group_col, vcols, max_score_in,
                                     view, click, display_names)
         IN  IF fig.kind = "raise" THEN fig
             ELSE Returns(fig.figure, details[1], details[2])

----------------------------------------------------------------------------
(* State *)

VARIABLES
    \* map_engagement_level applied to one stage value
    epc, stage, level,
    \* process_data applied to a frame, and again to its own result
    pc, df_in, value_columns, df, max_score, first,
    \* process_uploaded_data applied to one upload
    lpc, contents, filename, loaded,
    \* detect_encoding applied to one result of the guesser
    dpc, guess, encoding,
    \* the page: the upload control, the outputs of handle_upload (the five
    \* dcc.Store among them), the controls of the visualization layout and the
    \* outputs of update_visualization
    upload_data, upload_status, main_content,
    processed_data, value_columns_store, max_value_score, filename_store,
    original_columns,
    group_filter, agency_filter, view_mode, quadrant_toggle, click_data,
    figure, details_open, agency_details,
    \* the input whose change has update_visualization still to run ("" for none),
    \* and the exception the last run of it ended with ("" for none)
    triggered, callback_error,
    \* the n_clicks of the reset-filters button (None until the first click), and
    \* the exception the last run of reset_filters ended with ("" for none)
    n_clicks, reset_error

eng_vars  == <<epc, stage, level>>
cl_vars   == <<pc, df_in, value_columns, df, max_score, first>>
load_vars == <<lpc, contents, filename, loaded>>
enc_vars  == <<dpc, guess, encoding>>
stores    == <<processed_data, value_columns_store, max_value_score, filename_store,
               original_columns>>
controls  == <<group_filter, agency_filter, view_mode, quadrant_toggle, click_data>>
outputs   == <<figure, details_open, agency_details>>
reset_vars == <<n_clicks, reset_error>>
page_vars == <<upload_data, upload_status, main_content, stores, controls, outputs,
               triggered, callback_error, reset_vars>>
vars      == <<eng_vars, cl_vars, load_vars, enc_vars, page_vars>>

Idle == "idle"
NoFrame == [columns |-> <<>>, rows |-> <<>>]

EngIdle  == epc = Idle /\ stage = NaN /\ level = 0
ClIdle   == /\ pc = Idle /\ df_in = NoFrame /\ value_columns = <<>>
            /\ df = NoFrame /\ max_score = 0 /\ first = NoFrame
LoadIdle == lpc = Idle /\ contents = PyNone /\ filename = "" /\ loaded = <<>>
EncIdle  == dpc = Idle /\ guess = Guess(PyNone, 0) /\ encoding = PyNone

\* the page as it is served, after the initial call of handle_upload (contents is
\* None: every output no_update)
PageInit ==
    /\ upload_data = [contents |-> PyNone, filename |-> PyNone]
    /\ upload_status = PyNone
    /\ main_content = UploadCard
    /\ processed_data = PyNone /\ value_columns_store = PyNone
    /\ max_value_score = PyNone /\ filename_store = PyNone
    /\ original_columns = PyNone
    /\ group_filter = PyNone /\ agency_filter = PyNone /\ view_mode = PyNone
    /\ quadrant_toggle = PyNone /\ click_data = PyNone
    /\ figure = PyNone /\ details_open = FALSE /\ agency_details = PyNone
    /\ triggered = "" /\ callback_error = ""
    /\ n_clicks = PyNone /\ reset_error = ""

----------------------------------------------------------------------------
(* Inputs of map_engagement_level: text built from fragments, and the      *)
(* non-text cells a stage column can hold.                                 *)

MaxFragments == 2

StageFragments ==
    {"untouch", "Untouched", "free", "FREE", "direct", "DA-D", "da-", "lite",
     "Full", "full", "Orders 360 ", " ", "fre"}

RECURSIVE FragmentTexts(_)
FragmentTexts(n) ==
    IF n = 0 THEN {""}
    ELSE LET shorter == FragmentTexts(n - 1)
         IN  shorter \cup {t \o f : t \in shorter, f \in StageFragments}

StageInputs ==
    {StrCell(t) : t \in FragmentTexts(MaxFragments)} \cup {NaN, IntCell(4), BoolCell(TRUE)}

EngInit ==
    /\ epc = "call"
    /\ stage \in StageInputs
    /\ level = 0
    /\ ClIdle /\ LoadIdle /\ EncIdle /\ PageInit

MapEngagementLevel ==
    /\ epc = "call"
    /\ level' = map_engagement_level(stage)
    /\ epc' = "done"
    /\ UNCHANGED <<stage, cl_vars, load_vars, enc_vars, page_vars>>

EngNext == MapEngagementLevel

SpecEngagement == EngInit /\ [][EngNext]_vars

----------------------------------------------------------------------------
(* Inputs of process_data: frames over a few column layouts, each column   *)
(* with the cells it may hold, and a Boolean Column Set for the frame.     *)

MaxRows == 2

YesNoCells == {StrCell("Yes"), StrCell("No")}

\* what an uploaded yes/no column can hold before normalisation
RawCells ==
    {StrCell("Yes"), StrCell("yes"), StrCell("Y"), StrCell("y"), StrCell("1"),
     StrCell("true"), StrCell("TRUE"), StrCell(" yes "), StrCell("No"),
     StrCell("0"), StrCell("maybe"), StrCell(""), NaN, IntCell(1), FloatCell(1),
     BoolCell(TRUE)}

StageCells ==
    {StrCell("Untouched"), StrCell("Free Trial"), StrCell("Direct"),
     StrCell("Orders 360 Lite"), StrCell("Orders 360 Full"), NaN}

StageColumn == "sales_stage_(subscription)"

Layouts ==
    { \* one yes/no column with every kind of raw cell
      [columns |-> <<"ehr_integration">>,
       cells   |-> <<RawCells>>,
       sets    |-> {<<"ehr_integration">>}],
      \* one yes/no column and the stage column
      [columns |-> <<"ehr_integration", StageColumn>>,
       cells   |-> <<YesNoCells, StageCells>>,
       sets    |-> {<<>>, <<"ehr_integration">>}],
      \* four yes/no columns and the stage column
      [columns |-> <<"ehr_integration", "e_prescribing", "telehealth",
                     "patient_portal", StageColumn>>,
       cells   |-> <<YesNoCells, YesNoCells, YesNoCells, YesNoCells,
                     {StrCell("Orders 360 Full")}>>,
       sets    |-> {<<"ehr_integration", "e_prescribing", "telehealth",
                      "patient_portal">>}],
      \* three yes/no columns, no stage column
      [columns |-> <<"ehr_integration", "e_prescribing", "telehealth">>,
       cells   |-> <<YesNoCells, YesNoCells, YesNoCells>>,
       sets    |-> {<<"ehr_integration", "e_prescribing", "telehealth">>,
                    <<"telehealth", "ehr_integration">>}],
      \* a yes/no column whose name is that of a derived column
      [columns |-> <<"telehealth", "size">>,
       cells   |-> <<YesNoCells, YesNoCells>>,
       sets    |-> {<<"telehealth", "size">>}],
      \* two columns of a stage name
      [columns |-> <<"ehr_integration", "subscription_plan", "sales_stage">>,
       cells   |-> <<YesNoCells,
                     {StrCell("Orders 360 Lite"), StrCell("Untouched")},
                     {StrCell("Direct"), StrCell("Free Trial")}>>,
       sets    |-> {<<"ehr_integration">>}] }

\* the rows over columns[k..]: one cell of cells[k] for each column
RECURSIVE RowsOver(_, _, _)
RowsOver(columns, cells, k) ==
    IF k > Len(columns) THEN {<<>>}
    ELSE {(columns[k] :> v) @@ r : v \in cells[k], r \in RowsOver(columns, cells, k + 1)}

FramesOver(layout) ==
    LET rowset == RowsOver(layout.columns, layout.cells, 1)
    IN  {[columns |-> layout.columns, rows |-> rs] :
            rs \in UNION {[1..n -> rowset] : n \in 1..MaxRows}}

ClInit ==
    /\ pc = "start"
    /\ \E layout \in Layouts :
          /\ df_in \in FramesOver(layout)
          /\ value_columns \in layout.sets
    /\ df = df_in
    /\ max_score = 0
    /\ first = NoFrame
    /\ EngIdle /\ LoadIdle /\ EncIdle /\ PageInit

\* lines 85-87: the frame is rewritten in place
Normalize ==
    /\ pc \in {"start", "done"}
    /\ df' = NormalizeStep(df, value_columns)
    /\ pc' = IF pc = "start" THEN "normalized" ELSE "normalized2"
    /\ first' = IF pc = "done" THEN [df |-> df, max_score |-> max_score] ELSE first
    /\ UNCHANGED <<df_in, value_columns, max_score, eng_vars, load_vars, enc_vars, page_vars>>

\* lines 90-121
Classify ==
    /\ pc \in {"normalized", "normalized2"}
    /\ LET r == ClassifyStep(df, value_columns)
       IN  /\ df' = r.df
           /\ max_score' = r.max_score
    /\ pc' = IF pc = "normalized" THEN "done" ELSE "done2"
    /\ UNCHANGED <<df_in, value_columns, first, eng_vars, load_vars, enc_vars, page_vars>>

ClNext == Normalize \/ Classify

SpecClassify == ClInit /\ [][ClNext]_vars

----------------------------------------------------------------------------
(* Inputs of process_uploaded_data: no contents, contents the decode or the *)
(* reader raises on, and parsed frames of 0..MaxRows rows.                  *)

LoadCells ==
    {StrCell("Yes"), StrCell("n"), StrCell(" TRUE "), StrCell("maybe"), NaN,
     IntCell(1), FloatCell(1), BoolCell(FALSE)}

UploadLayouts ==
    { [columns |-> <<"EHR Integration", "Notes">>,
       cells   |-> <<LoadCells, {StrCell("call back"), NaN}>>],
      [columns |-> <<" Agency Name ", "Physician Group",
                     "Sales Stage (Subscription)", "Telehealth">>,
       cells   |-> <<{StrCell("Acme")}, {StrCell("North"), NaN},
                     {StrCell("Orders 360 Full"), StrCell("Free Trial")},
                     YesNoCells>>] }

ParsedFrames(layout) ==
    LET rowset == RowsOver(layout.columns, layout.cells, 1)
    IN  {[columns |-> layout.columns, rows |-> rs] :
            rs \in UNION {[1..n -> rowset] : n \in 0..MaxRows}}

ReaderErrors ==
    {"not enough values to unpack (expected 2, got 1)",
     "No columns to parse from file",
     "Incorrect padding"}

\* what one field of a yes/no column of a delimited file can hold
CsvFields == {"Yes", "n", "1", "0", "", "maybe"}

CsvColumns == <<"Agency Name", "Telehealth">>

\* delimited files of an agency column and a yes/no column
CsvTables ==
    {[columns |-> CsvColumns, rows |-> rs] :
        rs \in UNION {[1..n -> {<<"Acme", f>> : f \in CsvFields}] : n \in 0..MaxRows}}

LoadInputs ==
    {PyNone, PyStr("")}
        \cup {Raises(msg) : msg \in ReaderErrors}
        \cup {ParsesTo(d) : d \in UNION {ParsedFrames(l) : l \in UploadLayouts}}
        \cup {CsvOf(t) : t \in CsvTables}

LoadInit ==
    /\ lpc = "call"
    /\ contents \in LoadInputs
    /\ filename = "agencies.csv"
    /\ loaded = <<>>
    /\ EngIdle /\ ClIdle /\ EncIdle /\ PageInit

ProcessUploadedData ==
    /\ lpc = "call"
    /\ loaded' = process_uploaded_data(contents, filename)
    /\ lpc' = "done"
    /\ UNCHANGED <<contents, filename, eng_vars, cl_vars, enc_vars, page_vars>>

LoadNext == ProcessUploadedData

SpecLoad == LoadInit /\ [][LoadNext]_vars

----------------------------------------------------------------------------
(* Inputs of detect_encoding: what the guesser can answer.  It names no      *)
(* encoding exactly when its confidence is 0.                               *)

Encodings == {"ascii", "utf-8", "ISO-8859-1", "Windows-1252"}

GuesserResults ==
    {Guess(PyNone, 0)} \cup {Guess(PyStr(e), pct) : e \in Encodings, pct \in 1..100}

EncInit ==
    /\ dpc = "call"
    /\ guess \in GuesserResults
    /\ encoding = PyNone
    /\ EngIdle /\ ClIdle /\ LoadIdle /\ PageInit

DetectEncoding ==
    /\ dpc = "call"
    /\ encoding' = detect_encoding(guess)
    /\ dpc' = "done"
    /\ UNCHANGED <<guess, eng_vars, cl_vars, load_vars, page_vars>>

EncNext == DetectEncoding

SpecEncoding == EncInit /\ [][EncNext]_vars

----------------------------------------------------------------------------
(* The page: uploads and interactions *)

Row(cols, cells) == Table([k \in Range(cols) |-> cells[IndexOf(cols, k)]])

AgenciesColumns ==
    <<"Agency Name", "Physician Group", "EHR Integration", "Telehealth",
      "Sales Stage (Subscription)">>
ClinicsColumns == <<"agency name", "E-Prescribing", "Stage">>

\* the files a user drops on the upload control
Uploads ==
    { [contents |-> PyNone, filename |-> PyNone],
      [contents |-> Raises("Incorrect padding"), filename |-> PyStr("broken.csv")],
      [contents |-> ParsesTo([columns |-> <<"Agency Name", "EHR Integration">>,
                              rows |-> <<>>]),
       filename |-> PyStr("header_only.csv")],
      [contents |-> ParsesTo(
          [columns |-> AgenciesColumns,
           rows |-> << Row(AgenciesColumns,
                           <<StrCell("Acme"), StrCell("North"), StrCell("Yes"),
                             StrCell("Yes"), StrCell("Orders 360 Full")>>),
                       Row(AgenciesColumns,
                           <<StrCell("Beta"), StrCell("South"), StrCell("no"),
                             StrCell("Yes"), StrCell("Free Trial")>>) >>]),
       filename |-> PyStr("agencies.csv")],
      [contents |-> ParsesTo(
          [columns |-> ClinicsColumns,
           rows |-> << Row(ClinicsColumns,
                           <<StrCell("Coda"), StrCell("Y"), StrCell("Direct")>>) >>]),
       filename |-> PyStr("clinics.csv")] }

\* handle_upload(contents, filename) of each of them
Handled ==
    Table([u \in Uploads |->
        handle_upload(u.contents, IF u.filename = PyNone THEN "" ELSE u.filename[2])])

\* what a property of the page holds once a callback has returned `out` for it
Updated(current, out) == IF out = NoUpdate THEN current ELSE out

\* The user drops a file on the upload control, which is part of the first
\* main-content only, and handle_upload runs for the new contents.  A new
\* main-content brings its controls with the values of lines 248-284 and 299, and
\* the new stores set update_visualization off.
HandleUpload(u) ==
    /\ main_content = UploadCard
    /\ triggered = ""
    /\ upload_data' = u
    /\ \E r \in {Handled[u]} :
          /\ upload_status' = Updated(upload_status, r.upload_status)
          /\ main_content' = Updated(main_content, r.main_content)
          /\ processed_data' = Updated(processed_data, r.processed_data)
          /\ value_columns_store' = Updated(value_columns_store, r.value_columns)
          /\ max_value_score' = Updated(max_value_score, r.max_value_score)
          /\ filename_store' = Updated(filename_store, r.filename_store)
          /\ original_columns' = Updated(original_columns, r.original_columns)
          /\ IF r.main_content = NoUpdate
             THEN UNCHANGED <<controls, outputs, callback_error, reset_vars>>
             ELSE /\ group_filter' = (IF Len(r.main_content[2].group_options) > 0
                                      THEN PyList(r.main_content[2].group_options)
                                      ELSE PyNone)
                  /\ agency_filter' = PyNone
                  /\ view_mode' = PyStr("quadrant")
                  /\ quadrant_toggle' = PyList(<<"show">>)
                  /\ click_data' = PyNone
                  /\ figure' = PyNone
                  /\ details_open' = FALSE
                  /\ agency_details' = PyNone
                  /\ callback_error' = ""
                  \* the new layout has a new reset-filters button
                  /\ n_clicks' = PyNone
                  /\ reset_error' = ""
          /\ triggered' = (IF <<r.processed_data, r.value_columns, r.max_value_score,
                                r.original_columns>>
                                  = <<NoUpdate, NoUpdate, NoUpdate, NoUpdate>>
                           THEN "" ELSE "processed-data")
    /\ UNCHANGED <<eng_vars, cl_vars, load_vars, enc_vars>>

\* one run of update_visualization on the page's values, and what Dash does with
\* its result: the three outputs are set, but for a no_update; an exception
\* leaves them as they are
RunVisualization(trigger_id, groups, agencies, view, toggle, click) ==
    \E r \in {update_visualization(trigger_id, processed_data, value_columns_store,
                                    max_value_score, groups, agencies, view, toggle,
                                    click, original_columns)} :
        /\ group_filter' = groups
        /\ agency_filter' = agencies
        /\ view_mode' = view
        /\ quadrant_toggle' = toggle
        /\ click_data' = click
        /\ triggered' = ""
        /\ IF r.kind = "raise"
           THEN /\ callback_error' = r.error
                /\ UNCHANGED outputs
           ELSE /\ callback_error' = ""
                /\ figure' = r.figure
                /\ details_open' = r.details_open
                /\ agency_details' = (IF r.agency_details = NoUpdate THEN agency_details
                                      ELSE r.agency_details)
        /\ UNCHANGED <<upload_data, upload_status, main_content, stores, reset_vars,
                       eng_vars, cl_vars, load_vars, enc_vars>>

\* the run the new stores and the new layout set off
RenderUpload ==
    /\ triggered # ""
    /\ RunVisualization(triggered, group_filter, agency_filter, view_mode,
                        quadrant_toggle, click_data)

Ready == main_content[1] = "visualization" /\ triggered = ""

\* the sub-lists of a list, order kept
RECURSIVE SubLists(_)
SubLists(l) ==
    IF Len(l) = 0 THEN {<<>>}
    ELSE LET rest == SubLists(Tail(l))
         IN  rest \cup {<<Head(l)>> \o t : t \in rest}

SelectGroups ==
    /\ Ready
    /\ \E sel \in SubLists(main_content[2].group_options) :
          RunVisualization("group-filter", PyList(sel), agency_filter, view_mode,
                           quadrant_toggle, click_data)

SelectAgencies ==
    /\ Ready
    /\ \E sel \in SubLists(main_content[2].agency_options) :
          RunVisualization("agency-filter", group_filter, PyList(sel), view_mode,
                           quadrant_toggle, click_data)

SetViewMode ==
    /\ Ready
    /\ \E view \in {"quadrant", "heatmap"} :
          RunVisualization("view-mode", group_filter, agency_filter, PyStr(view),
                           quadrant_toggle, click_data)

ToggleQuadrants ==
    /\ Ready
    /\ \E toggle \in {<<>>, <<"show">>} :
          RunVisualization("quadrant-toggle", group_filter, agency_filter, view_mode,
                           PyList(toggle), click_data)

ResetView ==
    /\ Ready
    /\ RunVisualization("reset-view", group_filter, agency_filter, view_mode,
                        quadrant_toggle, click_data)

\* the clickData of the points the figure on the page shows
ClickPoints ==
    IF figure = PyNone THEN {}
    ELSE LET f == figure[2]
         IN  CASE f.kind = "quadrant" ->
                    UNION { {<<"clickData", [x |-> tr.x[i], y |-> tr.y[i],
                                             text |-> tr.text[i]]>> :
                                i \in DOMAIN tr.text} : tr \in Range(f.traces) }
               [] f.kind = "heatmap" ->
                    {<<"clickData", [x |-> f.x[i], y |-> f.y[k], z |-> f.z[k][i]]>> :
                        i \in DOMAIN f.x, k \in DOMAIN f.y}
               [] OTHER -> {}

ClickPoint ==
    /\ Ready
    /\ \E click \in ClickPoints :
          RunVisualization("main-visualization", group_filter, agency_filter,
                           view_mode, quadrant_toggle, click)

\* reset_filters: with a truthy n_clicks the return expression reads
\* group_options, a name bound as a local of handle_upload (lines 213-217) and
\* nowhere at module level, before it builds any of the five values
reset_filters(clicks) ==
    IF Truthy(clicks) THEN RaisesError("NameError") ELSE [kind |-> "no_update"]

\* a click on the reset-filters button: n_clicks is one or more from then on
ResetFilters ==
    /\ Ready
    /\ n_clicks' = IntCell(1)
    /\ \E r \in {reset_filters(n_clicks')} :
          reset_error' = (IF r.kind = "raise" THEN r.error ELSE "")
    \* neither an exception nor no_update changes an output
    /\ UNCHANGED <<upload_data, upload_status, main_content, stores, controls, outputs,
                   triggered, callback_error, eng_vars, cl_vars, load_vars, enc_vars>>

Next ==
    \/ \E u \in Uploads : HandleUpload(u)
    \/ RenderUpload
    \/ SelectGroups
    \/ SelectAgencies
    \/ SetViewMode
    \/ ToggleQuadrants
    \/ ResetView
    \/ ClickPoint
    \/ ResetFilters

Init == PageInit /\ EngIdle /\ ClIdle /\ LoadIdle /\ EncIdle

Spec == Init /\ [][Next]_vars

----------------------------------------------------------------------------
(* Properties of process_data (SpecClassify) *)

Classified == pc \in {"done", "done2"}

\* the frame the application that has just finished was given
GivenFrame == IF pc \in {"normalized", "done"} THEN df_in ELSE first.df

Cell(i, c) == df.rows[i][c]
Num(i, c) == df.rows[i][c][2]

\* C1: after process_data each record's value_score is the number of columns of
\* the Boolean Column Set whose normalised value is 'Yes', and lies in
\* 0..max_score, where max_score is the size of the set, or 1 for the empty set.
C1_ValueScoreCountsYes ==
    Classified =>
        /\ max_score = (IF Range(value_columns) = {} THEN 1
                        ELSE Cardinality(Range(value_columns)))
        /\ \A i \in DOMAIN df.rows :
              /\ Cell(i, "value_score")[1] = "int"
              /\ Num(i, "value_score") =
                    Cardinality({c \in Range(value_columns) :
                        NormalizeBool(GivenFrame.rows[i][c]) = StrCell("Yes")})
              /\ 0 <= Num(i, "value_score")
              /\ Num(i, "value_score") <= max_score

C1_Witness ==
    /\ pc = "done"
    /\ Len(value_columns) = 4
    /\ \E i \in DOMAIN df.rows : Num(i, "value_score") = 3
    /\ \E i \in DOMAIN df.rows : Num(i, "value_score") = 0

\* C2: with value_threshold = 0.65 * max_score and engagement_threshold = 2 the
\* quadrant is Strategic Partners (value >=, engagement >=), Growth Opportunities
\* (value <, engagement >=), High Value Prospects (value >=, engagement <) or
\* Basic Users (value <, engagement <).
C2_QuadrantTable ==
    Classified =>
        \A i \in DOMAIN df.rows :
            LET v == Num(i, "value_score")
                e == Num(i, "engagement_level")
                q == Cell(i, "quadrant")
            IN  /\ (100 * v >= 65 * max_score /\ e >= 2) => q = StrCell("Strategic Partners")
                /\ (100 * v <  65 * max_score /\ e >= 2) => q = StrCell("Growth Opportunities")
                /\ (100 * v >= 65 * max_score /\ e < 2)  => q = StrCell("High Value Prospects")
                /\ (100 * v <  65 * max_score /\ e < 2)  => q = StrCell("Basic Users")

\* four boolean columns, three of them Yes, stage 'Orders 360 Full'
C2_Witness ==
    /\ pc = "done"
    /\ max_score = 4
    /\ \E i \in DOMAIN df.rows :
          /\ df_in.rows[i][StageColumn] = StrCell("Orders 360 Full")
          /\ Num(i, "value_score") = 3
          /\ Num(i, "engagement_level") = 4
          /\ Cell(i, "quadrant") = StrCell("Strategic Partners")

DerivedColumns == {"value_score", "engagement_level", "quadrant", "size"}

\* C3: process_data applied again to its own output, with the same Boolean Column
\* Set, gives every record the same normalised boolean values, value_score,
\* engagement_level, quadrant and size, and the same max_score.
C3_Idempotent ==
    pc = "done2" =>
        /\ max_score = first.max_score
        /\ \A i \in DOMAIN df.rows :
              \A c \in Range(value_columns) \cup DerivedColumns :
                  Cell(i, c) = first.df.rows[i][c]

ListedYes == {"Yes", "yes", "Y", "1", "true", "TRUE"}

IsBlank(cell) == cell = NaN \/ Strip(AsStr(cell)) = ""

\* C5 as claimed: a value among Yes, yes, Y, 1, true, TRUE is rewritten to 'Yes',
\* any other non-blank value to 'No', a blank to 'No'.
C5_ListedValuesOnly ==
    pc \in {"normalized", "normalized2"} =>
        \A i \in DOMAIN df.rows : \A c \in Range(value_columns) :
            LET raw == GivenFrame.rows[i][c]
            IN  /\ Cell(i, c) \in {StrCell("Yes"), StrCell("No")}
                /\ AsStr(raw) \in ListedYes => Cell(i, c) = StrCell("Yes")
                /\ (AsStr(raw) \notin ListedYes /\ ~IsBlank(raw)) => Cell(i, c) = StrCell("No")
                /\ IsBlank(raw) => Cell(i, c) = StrCell("No")

\* C5: a value whose text, trimmed and lower-cased, is yes, y, 1 or true (so each
\* of Yes, yes, Y, 1, true, TRUE) is rewritten to 'Yes', every other value, a
\* blank included, to 'No'; after the normalisation every cell of a boolean-like
\* column is 'Yes' or 'No'.
C5_Normalization ==
    pc \in {"normalized", "normalized2"} =>
        \A i \in DOMAIN df.rows : \A c \in Range(value_columns) :
            LET raw == GivenFrame.rows[i][c]
                txt == Lower(Strip(AsStr(raw)))
            IN  /\ Cell(i, c) \in {StrCell("Yes"), StrCell("No")}
                /\ Cell(i, c) = StrCell("Yes") <=> txt \in {"yes", "y", "1", "true"}
                /\ AsStr(raw) \in ListedYes => Cell(i, c) = StrCell("Yes")
                /\ IsBlank(raw) => Cell(i, c) = StrCell("No")

C5_Witness ==
    /\ pc = "normalized"
    /\ \E i \in DOMAIN df.rows : \E c \in Range(value_columns) :
          df_in.rows[i][c] = StrCell(" yes ") /\ Cell(i, c) = StrCell("Yes")
    /\ \E i \in DOMAIN df.rows : \E c \in Range(value_columns) :
          df_in.rows[i][c] = StrCell("maybe") /\ Cell(i, c) = StrCell("No")

Clamp(x, lo, hi) == IF x < lo THEN lo ELSE IF x > hi THEN hi ELSE x

\* C6: size = clamp(value_score * 12 + 25, 20, 60): it lies in 20..60 and a record
\* with at most the value_score of another has at most its size.
C6_SizeClampedMonotone ==
    Classified =>
        /\ \A i \in DOMAIN df.rows :
              /\ Num(i, "size") = Clamp(Num(i, "value_score") * 12 + 25, 20, 60)
              /\ 20 <= Num(i, "size") /\ Num(i, "size") <= 60
        /\ \A a, b \in DOMAIN df.rows :
              Num(a, "value_score") <= Num(b, "value_score")
                  => Num(a, "size") <= Num(b, "size")

C6_Witness ==
    /\ pc = "done"
    /\ \E a, b \in DOMAIN df.rows :
          /\ Num(a, "value_score") = 1 /\ Num(a, "size") = 37
          /\ Num(b, "value_score") = 4 /\ Num(b, "size") = 60

FourQuadrants ==
    {StrCell("Strategic Partners"), StrCell("Growth Opportunities"),
     StrCell("High Value Prospects"), StrCell("Basic Users")}

\* C7: every record gets one of the four quadrants, never 'Unclassified'; with an
\* empty Boolean Column Set max_score is 1, every value_score is 0 and every
\* record is Growth Opportunities or Basic Users.
C7_ClassificationTotal ==
    Classified =>
        /\ \A i \in DOMAIN df.rows :
              /\ Cell(i, "quadrant") \in FourQuadrants
              /\ Cell(i, "quadrant") # StrCell("Unclassified")
        /\ value_columns = <<>> =>
              /\ max_score = 1
              /\ \A i \in DOMAIN df.rows :
                    /\ Num(i, "value_score") = 0
                    /\ Cell(i, "quadrant") \in
                          {StrCell("Growth Opportunities"), StrCell("Basic Users")}

C7_Witness ==
    /\ pc = "done"
    /\ value_columns = <<>>
    /\ \E i \in DOMAIN df.rows : Cell(i, "quadrant") = StrCell("Growth Opportunities")
    /\ \E i \in DOMAIN df.rows : Cell(i, "quadrant") = StrCell("Basic Users")

----------------------------------------------------------------------------
(* Properties of map_engagement_level (SpecEngagement) *)

Keywords ==
    << <<"untouch", 0>>, <<"free", 1>>, <<"direct", 2>>, <<"da-d", 2>>,
       <<"lite", 3>>, <<"full", 4>> >>

\* C4: map_engagement_level returns the level of the first keyword, in the order
\* untouch, free, direct or da-d, lite, full, that occurs in the trimmed,
\* lower-cased value, 0 when none occurs; the result is in 0..4, and a value with
\* both 'free' and 'untouch' gives 0.
C4_FirstKeywordWins ==
    epc = "done" =>
        LET txt  == Lower(Strip(AsStr(stage)))
            hits == {k \in DOMAIN Keywords : Contains(txt, Keywords[k][1])}
        IN  /\ level \in 0..4
            /\ level = (IF hits = {} THEN 0 ELSE Keywords[Min(hits)][2])
            /\ (Contains(txt, "free") /\ Contains(txt, "untouch")) => level = 0

C4_Witness ==
    /\ epc = "done"
    /\ stage = StrCell("FREEUntouched")
    /\ level = 0

----------------------------------------------------------------------------
(* Properties of process_uploaded_data (SpecLoad) *)

NoContent  == IsFalsy(contents)
ParseThrew == ~IsFalsy(contents) /\ contents[2][1] = "raises"
ZeroRows   == ~IsFalsy(contents) /\ contents[2][1] = "frame" /\ Len(contents[2][2].rows) = 0

\* C8: with no content, with a decode/parse step that throws, and with a parsed
\* result of zero rows, the loader returns no table together with a message, and
\* never a table.
C8_LoadErrorReturnsNoTable ==
    (lpc = "done" /\ (NoContent \/ ParseThrew \/ ZeroRows)) =>
        /\ loaded[1] = PyNone
        /\ loaded[2][1] = "str"
        /\ Len(loaded[2][2]) > 0

\* a delimited file has been loaded
CsvLoaded == lpc = "done" /\ ~IsFalsy(contents) /\ contents[2][1] = "csv"

\* every non-blank value of column k of the file, trimmed and lower-cased, is a
\* word of the vocabulary
ValuesInVocabulary(t, k) ==
    \A i \in DOMAIN t.rows :
        \/ t.rows[i][k] = ""
        \/ Lower(Strip(t.rows[i][k])) \in {"yes", "no", "y", "n", "1", "0", "true", "false"}

\* the keys of the columns k.. of the file whose values are in the vocabulary, in
\* column order
RECURSIVE BooleanKeys(_, _)
BooleanKeys(t, k) ==
    IF k > Len(t.columns) THEN <<>>
    ELSE (IF ValuesInVocabulary(t, k) THEN <<CleanName(t.columns[k])>> ELSE <<>>)
            \o BooleanKeys(t, k + 1)

\* C11: the Boolean Column Set the loader returns lists, in table column order,
\* exactly the columns whose distinct non-blank values, trimmed and lower-cased,
\* all belong to {yes, no, y, n, 1, 0, true, false}; a column with no non-blank
\* value is among them.
C11_BooleanColumnsByValues ==
    CsvLoaded => loaded[2] = PyList(BooleanKeys(contents[2][2], 1))

----------------------------------------------------------------------------
(* Properties of the page (Spec) *)

\* an upload the loader turns into a table with rows
Succeeds(u) ==
    /\ ~IsFalsy(u.contents)
    /\ u.contents[2][1] = "frame"
    /\ Len(u.contents[2][2].rows) > 0

\* the five values one successful upload gives the stores
Snapshot(u) ==
    LET r == process_uploaded_data(u.contents, u.filename[2])
        p == process_data(r[1][2], r[2][2])
    IN  <<to_json(p.df), r[2], IntCell(p.max_score), u.filename, r[3]>>

Empty == <<PyNone, PyNone, PyNone, PyNone, PyNone>>

StoresHoldLastSuccess ==
    IF Succeeds(upload_data) THEN stores = Snapshot(upload_data) ELSE stores = Empty

UploadStep ==
    /\ (stores' # stores) =>
          (upload_data' # upload_data /\ Succeeds(upload_data')
              /\ stores' = Snapshot(upload_data')
              /\ \A k \in 1..5 : stores'[k] # stores[k])
    /\ (upload_data' # upload_data /\ ~Succeeds(upload_data')) => stores' = stores

\* C9: the five stores are empty until an upload succeeds and from then on hold
\* exactly what that upload produced; a step changes them only when it is a
\* successful upload, which replaces all five together, and an attempt that
\* fails (no content, a reader error, zero rows) leaves all five as they were.
C9_StoresAreOneSnapshot == []StoresHoldLastSuccess /\ [][UploadStep]_vars

\* the two-row file has been processed: its five values are in the stores
C9_Witness ==
    /\ Succeeds(upload_data)
    /\ upload_data.filename = PyStr("agencies.csv")
    /\ stores = Snapshot(upload_data)
    /\ \A k \in 1..5 : stores[k] # PyNone

\* the label a column key had in the uploaded file
OriginalLabel(key) ==
    LET labels == original_columns[2]
    IN  labels[Min({k \in DOMAIN labels : CleanName(labels[k]) = key})]

\* C10: the feature axis of the heatmap and the feature badges of the details
\* panel show, for each boolean-like column, the label the column had in the
\* uploaded file.
C10_LabelsAreOriginal ==
    /\ (figure # PyNone /\ figure[2].kind = "heatmap") =>
          \A k \in DOMAIN figure[2].y :
              figure[2].y[k] = OriginalLabel(value_columns_store[2][k])
    /\ (agency_details # PyNone /\ agency_details[1] = "Container") =>
          \A k \in DOMAIN agency_details[2].badges :
              agency_details[2].badges[k].label = OriginalLabel(value_columns_store[2][k])

\* the classified table as the store holds it, and its record of an agency
StoredTable == read_json(processed_data)
StoredAgencyColumn == AgencyColumn(StoredTable.columns, PyStr("agency_name"))[2]
HasRecord(agency) ==
    \E i \in DOMAIN StoredTable.rows : StoredTable.rows[i][StoredAgencyColumn] = agency
Record(agency) ==
    StoredTable.rows[Min({i \in DOMAIN StoredTable.rows :
                            StoredTable.rows[i][StoredAgencyColumn] = agency})]

\* a point of the scatter figure carries its record's stored scores
ScatterFromStore(f) ==
    \A t \in DOMAIN f.traces : \A i \in DOMAIN f.traces[t].text :
        LET agency == f.traces[t].text[i]
        IN  /\ HasRecord(agency)
            /\ f.traces[t].x[i] = Record(agency)["value_score"]
            /\ f.traces[t].y[i] = Record(agency)["engagement_level"]
            /\ f.traces[t].size[i] = Record(agency)["size"]

\* the heatmap has one line for each column of the stored Boolean Column Set, and
\* each cell tells the stored value
HeatmapFromStore(f) ==
    LET vcols == value_columns_store[2]
    IN  /\ DOMAIN f.y = DOMAIN vcols
        /\ DOMAIN f.z = DOMAIN vcols
        /\ \A k \in DOMAIN vcols : \A i \in DOMAIN f.x :
              /\ HasRecord(f.x[i])
              /\ f.z[k][i] = (IF Record(f.x[i])[vcols[k]] = StrCell("Yes") THEN 1 ELSE 0)

\* the details panel tells the stored score, quadrant and adoption of its agency
DetailsFromStore(c) ==
    LET vcols == value_columns_store[2]
    IN  /\ HasRecord(c.agency_name)
        /\ c.value_score = <<Record(c.agency_name)["value_score"], max_value_score>>
        /\ c.quadrant = Record(c.agency_name)["quadrant"]
        /\ DOMAIN c.badges = DOMAIN vcols
        /\ \A k \in DOMAIN vcols :
              c.badges[k].adopted = (Record(c.agency_name)[vcols[k]] = StrCell("Yes"))

RenderedFromStore ==
    /\ (figure # PyNone /\ figure[2].kind = "quadrant") => ScatterFromStore(figure[2])
    /\ (figure # PyNone /\ figure[2].kind = "heatmap") => HeatmapFromStore(figure[2])
    /\ (agency_details # PyNone /\ agency_details[1] = "Container") =>
          DetailsFromStore(agency_details[2])

\* a step that is no upload
InteractionKeepsStores == (upload_data' = upload_data) => (stores' = stores)

\* C12: a filter, view-mode, overlay, reset-view or click interaction changes none
\* of the stores (classified table, Boolean Column Set, max_score, file name,
\* original columns), and what is rendered is read from them: the columns of the
\* stored Boolean Column Set and each record's stored value_score and quadrant,
\* whatever rows the filters leave.
C12_InteractionsReadOnly == []RenderedFromStore /\ [][InteractionKeepsStores]_vars

\* the agency filter leaves one of the two agencies, shown in the heatmap with the
\* two stored columns
C12_Witness ==
    /\ upload_data.filename = PyStr("agencies.csv")
    /\ agency_filter = PyList(<<StrCell("Beta")>>)
    /\ figure # PyNone /\ figure[2].kind = "heatmap"
    /\ figure[2].x = <<StrCell("Beta")>>
    /\ Len(figure[2].y) = 2
    /\ stores = Snapshot(upload_data)

\* the rows of the stored table that the two filters leave
Filtered(groups, agencies) ==
    LET group_col == GroupColumn(StoredTable.columns, PyStr("physician_group"))[2]
        by_group  == IF Truthy(groups) /\ group_col \in Range(StoredTable.columns)
                     THEN FilterIsIn(StoredTable, group_col, groups[2]) ELSE StoredTable
    IN  IF Truthy(agencies) /\ StoredAgencyColumn \in Range(by_group.columns)
        THEN FilterIsIn(by_group, StoredAgencyColumn, agencies[2]) ELSE by_group

\* the agency a click was made on: the text of a scatter point, the x of a
\* heatmap cell
ClickedAgency(click) ==
    IF "text" \in DOMAIN click[2] THEN click[2].text ELSE click[2].x

\* the click selection names a record that the filters have removed
LookupFails(groups, agencies, click) ==
    /\ Truthy(click)
    /\ \A i \in DOMAIN Filtered(groups, agencies).rows :
          Filtered(groups, agencies).rows[i][StoredAgencyColumn] # ClickedAgency(click)

\* the step of the reset-view button, which looks nothing up
ResetViewStep ==
    /\ controls' = controls
    /\ figure' = EmptyFigure /\ details_open' = FALSE /\ callback_error' = ""

\* update_visualization has run for an interaction other than reset-view
LookupStep ==
    /\ upload_data' = upload_data
    /\ reset_vars' = reset_vars
    /\ main_content'[1] = "visualization" /\ triggered' = ""
    /\ ~ResetViewStep

CouldNotLoad == Alert("danger", "Could not load agency details")

\* C13: when the click selection names a record that is not in the filtered
\* table, in either view mode and also when the filters leave no rows,
\* update_visualization returns a figure, the details panel open and the
\* 'could not load' notice, and does not raise.
C13_LookupFailureIsNotice ==
    [][(LookupStep /\ LookupFails(group_filter', agency_filter', click_data')) =>
            (/\ callback_error' = ""
             /\ figure' # PyNone /\ figure'[1] = "Figure"
             /\ details_open' = TRUE
             /\ agency_details' = CouldNotLoad)]_vars

\* C16: over a stored table with a non-empty Boolean Column Set every run of
\* update_visualization, whatever the filters, the view mode, the overlay
\* toggle and the click selection, zero filtered rows included, returns its
\* (figure, details-open, details) triple: it never ends with an unassigned
\* figure or an uncaught error.
C16_InteractionsComplete ==
    (Ready /\ Len(value_columns_store[2]) > 0) =>
        /\ callback_error = ""
        /\ figure # PyNone /\ figure[1] = "Figure"
        /\ details_open \in BOOLEAN

\* the values handle_upload gives the five controls in a new layout
UploadDefaults ==
    <<IF Len(main_content[2].group_options) > 0
      THEN PyList(main_content[2].group_options) ELSE PyNone,
      PyNone, PyStr("quadrant"), PyList(<<"show">>), PyNone>>

\* C17: after a successful upload a click on the reset-filters button
\* (n_clicks >= 1) completes and leaves the group filter at all groups of the
\* snapshot, the agency filter at none, the view mode at 'quadrant', the
\* overlay shown and the click selection cleared; a run with n_clicks absent or
\* 0 changes nothing.
C17_ResetRestoresDefaults ==
    /\ [](reset_filters(PyNone).kind = "no_update"
            /\ reset_filters(IntCell(0)).kind = "no_update")
    /\ [][(n_clicks' # n_clicks /\ Truthy(n_clicks')) =>
              (reset_error' = "" /\ controls' = UploadDefaults)]_vars

----------------------------------------------------------------------------
(* Properties of detect_encoding (SpecEncoding) *)

\* C14 as stated: UTF-8 when the confidence is below 0.7, the guesser's encoding
\* when it is 0.7 or higher, and never an absent encoding.
C14_GuessFromThreshold ==
    dpc = "done" =>
        /\ guess.confidence < 70 => encoding = PyStr("utf-8")
        /\ guess.confidence >= 70 => encoding = guess.encoding
        /\ encoding # PyNone

\* C14: detect_encoding returns the guesser's encoding when the confidence is
\* above 0.7 and UTF-8 when it is 0.7 or lower; it never returns an absent
\* encoding.
C14_GuessAboveThreshold ==
    dpc = "done" =>
        /\ guess.confidence <= 70 => encoding = PyStr("utf-8")
        /\ guess.confidence > 70 => encoding = guess.encoding
        /\ encoding # PyNone /\ encoding[1] = "str" /\ Len(encoding[2]) > 0

\* a guess of confidence exactly 0.7 has been answered with UTF-8
C14_Witness ==
    /\ dpc = "done"
    /\ guess = Guess(PyStr("ISO-8859-1"), 70)
    /\ encoding = PyStr("utf-8")

----------------------------------------------------------------------------
(* Stage-column selection in process_data (SpecClassify) *)

\* the columns of the given frame whose name contains 'stage' or 'subscription'
StageColumns ==
    {k \in DOMAIN GivenFrame.columns :
        \/ Contains(GivenFrame.columns[k], "stage")
        \/ Contains(GivenFrame.columns[k], "subscription")}

\* C15: engagement_level is map_engagement_level of the record's value in the
\* first column, in table column order, whose name contains 'stage' or
\* 'subscription'; without such a column every engagement_level is 0 and every
\* quadrant is High Value Prospects or Basic Users.
C15_FirstStageColumn ==
    Classified =>
        \A i \in DOMAIN df.rows :
            IF StageColumns = {}
            THEN /\ Cell(i, "engagement_level") = IntCell(0)
                 /\ Cell(i, "quadrant") \in {StrCell("High Value Prospects"),
                                             StrCell("Basic Users")}
            ELSE LET k == CHOOSE j \in StageColumns : \A l \in StageColumns : j <= l
                     c == GivenFrame.columns[k]
                     given == IF c \in Range(value_columns)
                              THEN NormalizeBool(GivenFrame.rows[i][c])
                              ELSE GivenFrame.rows[i][c]
                 IN  Cell(i, "engagement_level") = IntCell(map_engagement_level(given))

\* three boolean columns, a record with 'No' in all three, no stage column:
\* value_score 0, max_score 3, engagement_level 0, Basic Users
C15_Witness ==
    /\ pc = "done"
    /\ df_in.columns = <<"ehr_integration", "e_prescribing", "telehealth">>
    /\ Len(value_columns) = 3
    /\ max_score = 3
    /\ \E i \in DOMAIN df.rows :
          /\ \A c \in Range(value_columns) : df_in.rows[i][c] = StrCell("No")
          /\ Cell(i, "value_score") = IntCell(0)
          /\ Cell(i, "engagement_level") = IntCell(0)
          /\ Cell(i, "quadrant") = StrCell("Basic Users")

====
